---- MODULE Spec2Model ----
(***************************************************************************)
(* sync-dbx-nxc: two-way synchronisation of a Dropbox and a NextCloud      *)
(* namespace by diffing a persisted snapshot (state.json) against a        *)
(* freshly listed one.                                                     *)
(*                                                                         *)
(* Paths are sequences of one-character-like tokens ("/" is the            *)
(* separator), so that prefix tests, rstrip('/'), rfind('/') and root      *)
(* stripping are computed as the script computes them.  Times are          *)
(* integers standing for the strings strftime("%Y%m%d%H%M%S") yields;      *)
(* contents are integers standing for the bytes of a file.                 *)
(***************************************************************************)
EXTENDS Integers, Sequences, FiniteSets, TLC

\* ---------------------------------------------------------------- bounds

\* number of invocations of the script in one behaviour
MaxRuns == 2
\* number of changes users make to the backends in one behaviour
MaxChanges == 2
\* number of failed listings and ended processes in one behaviour
MaxFaults == 1

\* ------------------------------------------------------------- constants

\* 'time': None of an entry that does not exist on a backend
None == -1
SEP == "/"
DROPBOX_SYNC_ROOT == <<"/">>
NEXTCLOUD_SYNC_ROOT == <<"/">>
NEXTCLOUD_USER == "user"
NEXTCLOUD_SYNC_ROOT_TEXT == <<"/remote.php/dav/files/", NEXTCLOUD_USER>> \o NEXTCLOUD_SYNC_ROOT

\* the two keys the behaviours range over: a folder and a file below it
FolderKey == <<"d", "/">>
FileKey == <<"d", "/", "f">>
Keys == {FolderKey, FileKey}

Contents == {1, 2}

\* ------------------------------------------------------ string helpers

\* str.startswith
StartsWith(s, prefix) ==
    /\ Len(prefix) <= Len(s)
    /\ SubSeq(s, 1, Len(prefix)) = prefix

\* str.endswith('/')
is_folder(path) == Len(path) > 0 /\ path[Len(path)] = SEP

\* str.rstrip('/')
RECURSIVE RStrip(_)
RStrip(s) == IF is_folder(s) THEN RStrip(SubSeq(s, 1, Len(s) - 1)) ELSE s

\* str.rfind('/') + 1: the 1-based index of the last separator, 0 when none
RFind(s) ==
    LET idx == {i \in 1..Len(s) : s[i] = SEP}
    IN IF idx = {} THEN 0 ELSE CHOOSE i \in idx : \A j \in idx : j <= i

\* s[n:]
DropFirst(s, n) == SubSeq(s, n + 1, Len(s))

\* str.lower(), per token
LowerTok(c) ==
    CASE c = "D" -> "d"
      [] c = "F" -> "f"
      [] OTHER -> c
Lower(s) == [i \in 1..Len(s) |-> LowerTok(s[i])]

Restrict(f, S) == [x \in S |-> f[x]]

\* --------------------------------------------- the two storage backends
\* A store maps the paths of the objects it holds to
\* [folder, time, content]; a folder has content 0.

FileObj(t, c) == [folder |-> FALSE, time |-> t, content |-> c]
FolderObj(t) == [folder |-> TRUE, time |-> t, content |-> 0]

\* Dropbox names a folder without a trailing separator: "/d", "/d/f".
DbxAncestors(p) == {SubSeq(p, 1, i - 1) : i \in {j \in 2..Len(p) : p[j] = SEP}}
DbxBelow(p, q) == StartsWith(q, p \o <<SEP>>)

\* files_create_folder: an error when something is at the path; missing
\* parents are created
DbxCreateFolder(store, p, now) ==
    IF p \in DOMAIN store
    THEN [ok |-> FALSE, store |-> store]
    ELSE [ok |-> TRUE,
          store |-> [q \in DOMAIN store \cup DbxAncestors(p) \cup {p} |->
                        IF q \in DOMAIN store THEN store[q] ELSE FolderObj(now)]]

\* files_upload(..., WriteMode.overwrite): missing parents are created, a
\* folder at the path is an error
DbxUpload(store, p, c, now) ==
    IF p \in DOMAIN store /\ store[p].folder
    THEN [ok |-> FALSE, store |-> store]
    ELSE [ok |-> TRUE,
          store |-> [q \in DOMAIN store \cup DbxAncestors(p) \cup {p} |->
                        IF q = p THEN FileObj(now, c)
                        ELSE IF q \in DOMAIN store THEN store[q]
                        ELSE FolderObj(now)]]

\* files_delete: an error when nothing is at the path; a folder goes with
\* everything below it
DbxDelete(store, p) ==
    IF p \notin DOMAIN store
    THEN [ok |-> FALSE, store |-> store]
    ELSE [ok |-> TRUE,
          store |-> Restrict(store, {q \in DOMAIN store : q # p /\ ~DbxBelow(p, q)})]

\* files_download_to_file: an error unless a file is at the path
DbxDownload(store, p) ==
    IF p \in DOMAIN store /\ ~store[p].folder
    THEN [ok |-> TRUE, content |-> store[p].content]
    ELSE [ok |-> FALSE, content |-> 0]

\* NextCloud (WebDAV) names a folder with a trailing separator: "/d/", "/d/f".
NxcParent(p) == LET s == RStrip(p) IN SubSeq(s, 1, RFind(s))
NxcHasParent(store, p) ==
    NxcParent(p) = NEXTCLOUD_SYNC_ROOT \/ NxcParent(p) \in DOMAIN store
NxcBelow(p, q) == is_folder(p) /\ q # p /\ StartsWith(q, p)

\* MKCOL: refused (405) when the path exists, (409) when the parent is missing
NxcCreateFolder(store, p, now) ==
    IF p \in DOMAIN store \/ ~NxcHasParent(store, p)
    THEN [ok |-> FALSE, store |-> store]
    ELSE [ok |-> TRUE, store |-> (p :> FolderObj(now)) @@ store]

\* PUT: refused (409) when the parent collection is missing
NxcUpload(store, p, c, now) ==
    IF ~NxcHasParent(store, p) \/ (p \in DOMAIN store /\ store[p].folder)
    THEN [ok |-> FALSE, store |-> store]
    ELSE [ok |-> TRUE, store |-> (p :> FileObj(now, c)) @@ store]

\* DELETE: refused (404) when nothing is at the path; a collection goes with
\* everything below it
NxcDelete(store, p) ==
    IF p \notin DOMAIN store
    THEN [ok |-> FALSE, store |-> store]
    ELSE [ok |-> TRUE,
          store |-> Restrict(store, {q \in DOMAIN store : q # p /\ ~NxcBelow(p, q)})]

\* MOVE with overwrite: refused (404) when nothing is at the source
NxcMove(store, src, dst) ==
    IF src \notin DOMAIN store
    THEN [ok |-> FALSE, store |-> store]
    ELSE [ok |-> TRUE,
          store |-> (dst :> store[src]) @@ Restrict(store, DOMAIN store \ {src, dst})]

\* download_file: raises unless a file is at the path
NxcDownload(store, p) ==
    IF p \in DOMAIN store /\ ~store[p].folder
    THEN [ok |-> TRUE, content |-> store[p].content]
    ELSE [ok |-> FALSE, content |-> 0]

\* ------------------------------------------------ the script's wrappers
\* The wrappers act on a record W: the two stores, the calls issued so far
\* for the key at hand, whether an exception has been raised (the rest of
\* the run is then skipped), the SIMULATE flag, the clock, the content of the
\* local temporary file and the digest last computed.

\* one logged call: exec says that it reached the backend (not suppressed by
\* SIMULATE), ok that the backend carried it out
Call(op, path, exec, ok) == [op |-> op, path |-> path, exec |-> exec, ok |-> ok]

NewWorld(d, n, sim, now) ==
    [dbx |-> d, nxc |-> n, log |-> <<>>, raised |-> FALSE, sim |-> sim,
     now |-> now, tmp |-> 0, hash |-> 0]

Logged(W, c) == [W EXCEPT !.log = Append(@, c)]

create_folder_dbx(W, path) ==
    IF W.raised THEN W
    ELSE LET p == DROPBOX_SYNC_ROOT \o RStrip(path)
             r == DbxCreateFolder(W.dbx, p, W.now)
         IN IF W.sim
            THEN Logged(W, Call("create_folder_dbx", p, FALSE, TRUE))
            ELSE [Logged(W, Call("create_folder_dbx", p, TRUE, r.ok))
                    EXCEPT !.dbx = r.store, !.raised = ~r.ok]

\* create_folder_nxc without the SIMULATE test
create_folder_nxc_nosim(W, path) ==
    IF W.raised THEN W
    ELSE LET p == NEXTCLOUD_SYNC_ROOT \o path
             r == NxcCreateFolder(W.nxc, p, W.now)
         IN [Logged(W, Call("create_folder_nxc", p, TRUE, r.ok)) EXCEPT !.nxc = r.store]

\* the response of the NextCloud client is not looked at: a refused request
\* raises nothing
create_folder_nxc(W, path) ==
    IF W.raised THEN W
    ELSE LET p == NEXTCLOUD_SYNC_ROOT \o path
             r == NxcCreateFolder(W.nxc, p, W.now)
         IN IF W.sim
            THEN Logged(W, Call("create_folder_nxc", p, FALSE, TRUE))
            ELSE [Logged(W, Call("create_folder_nxc", p, TRUE, r.ok))
                    EXCEPT !.nxc = r.store]

move_nxc(W, path, destination_path) ==
    IF W.raised THEN W
    ELSE LET p == NEXTCLOUD_SYNC_ROOT \o path
             r == NxcMove(W.nxc, p, NEXTCLOUD_SYNC_ROOT \o destination_path)
         IN IF W.sim
            THEN Logged(W, Call("move_nxc", p, FALSE, TRUE))
            ELSE [Logged(W, Call("move_nxc", p, TRUE, r.ok)) EXCEPT !.nxc = r.store]

\* executed also under SIMULATE
download_file_dbx(W, path) ==
    IF W.raised THEN W
    ELSE LET p == DROPBOX_SYNC_ROOT \o path
             r == DbxDownload(W.dbx, p)
         IN [Logged(W, Call("download_file_dbx", p, TRUE, r.ok))
                EXCEPT !.tmp = r.content, !.raised = ~r.ok]

\* executed also under SIMULATE
download_file_nxc(W, path) ==
    IF W.raised THEN W
    ELSE LET p == NEXTCLOUD_SYNC_ROOT \o path
             r == NxcDownload(W.nxc, p)
         IN [Logged(W, Call("download_file_nxc", p, TRUE, r.ok))
                EXCEPT !.tmp = r.content, !.raised = ~r.ok]

\* get_hash(_local_filepath) is called with a name that is bound nowhere
\* (and get_hash itself reads the unbound full_path): NameError
get_hash(W) == [W EXCEPT !.raised = TRUE]

get_hash_dbx(W, path) ==
    IF W.raised THEN W
    ELSE get_hash(download_file_dbx(Logged(W, Call("get_hash_dbx", path, TRUE, TRUE)), path))

get_hash_nxc(W, path) ==
    IF W.raised THEN W
    ELSE get_hash(download_file_nxc(Logged(W, Call("get_hash_nxc", path, TRUE, TRUE)), path))

upload_file_dbx(W, path) ==
    IF W.raised THEN W
    ELSE LET p == DROPBOX_SYNC_ROOT \o path
             r == DbxUpload(W.dbx, p, W.tmp, W.now)
         IN IF W.sim
            THEN Logged(W, Call("upload_file_dbx", p, FALSE, TRUE))
            ELSE [Logged(W, Call("upload_file_dbx", p, TRUE, r.ok))
                    EXCEPT !.dbx = r.store, !.raised = ~r.ok]

upload_file_nxc(W, path) ==
    IF W.raised THEN W
    ELSE LET p == NEXTCLOUD_SYNC_ROOT \o path
             r == NxcUpload(W.nxc, p, W.tmp, W.now)
         IN IF W.sim
            THEN Logged(W, Call("upload_file_nxc", p, FALSE, TRUE))
            ELSE [Logged(W, Call("upload_file_nxc", p, TRUE, r.ok)) EXCEPT !.nxc = r.store]

delete_on_dbx(W, path) ==
    IF W.raised THEN W
    ELSE LET p == DROPBOX_SYNC_ROOT \o RStrip(path)
             r == DbxDelete(W.dbx, p)
         IN IF W.sim
            THEN Logged(W, Call("delete_on_dbx", p, FALSE, TRUE))
            ELSE [Logged(W, Call("delete_on_dbx", p, TRUE, r.ok))
                    EXCEPT !.dbx = r.store, !.raised = ~r.ok]

delete_on_nxc(W, path) ==
    IF W.raised THEN W
    ELSE LET p == NEXTCLOUD_SYNC_ROOT \o path
             r == NxcDelete(W.nxc, p)
         IN IF W.sim
            THEN Logged(W, Call("delete_on_nxc", p, FALSE, TRUE))
            ELSE [Logged(W, Call("delete_on_nxc", p, TRUE, r.ok)) EXCEPT !.nxc = r.store]

\* copy_to_dbx treating every path as a file
copy_to_dbx_filesonly(W, path) ==
    IF W.raised THEN W
    ELSE LET W0 == Logged(W, Call("copy_to_dbx", path, TRUE, TRUE))
         IN upload_file_dbx(download_file_nxc(W0, path), path)

copy_to_dbx(W, path) ==
    IF W.raised THEN W
    ELSE LET W0 == Logged(W, Call("copy_to_dbx", path, TRUE, TRUE))
         IN IF is_folder(path)
            THEN create_folder_dbx(W0, path)
            ELSE upload_file_dbx(download_file_nxc(W0, path), path)

\* copy_to_nxc with the is_folder test inverted
copy_to_nxc_inverted(W, path) ==
    IF W.raised THEN W
    ELSE LET W0 == Logged(W, Call("copy_to_nxc", path, TRUE, TRUE))
         IN IF ~is_folder(path)
            THEN create_folder_nxc(W0, path)
            ELSE upload_file_nxc(download_file_dbx(W0, path), path)

copy_to_nxc(W, path) ==
    IF W.raised THEN W
    ELSE LET W0 == Logged(W, Call("copy_to_nxc", path, TRUE, TRUE))
         IN IF is_folder(path)
            THEN create_folder_nxc(W0, path)
            ELSE upload_file_nxc(download_file_dbx(W0, path), path)

\* ------------------------------------------------------ snapshot builder

get_empty_state_entry(name, path) ==
    [dbx |-> [existent |-> FALSE, time |-> None],
     nxc |-> [existent |-> FALSE, time |-> None],
     name |-> name,
     path |-> path]

\* the last path segment, as both clients' listings give it
LastSegment(path) == LET s == RStrip(path) IN DropFirst(s, RFind(s))

\* one entry of a Dropbox listing (FolderMetadata / FileMetadata)
DbxEntry(store, p) ==
    [path_lower |-> Lower(p), path_display |-> p, name |-> LastSegment(p),
     folder |-> store[p].folder, client_modified |-> store[p].time]

\* files_list_folder(recursive=True) and files_list_folder_continue: the
\* pages of one listing.  The objects whose path is in firstPage come with
\* the first response, the others with the continuation.
DbxPages(store, firstPage) ==
    LET first == {DbxEntry(store, p) : p \in DOMAIN store \cap firstPage}
        rest == {DbxEntry(store, p) : p \in DOMAIN store \ firstPage}
    IN IF rest = {} THEN <<first>> ELSE <<first, rest>>

\* the body of the for loop of fill_state_dbx, for one entry
FillEntryDbx(state, entry, timeNow) ==
    LET stripped == DropFirst(entry.path_lower, Len(DROPBOX_SYNC_ROOT))
        key == IF entry.folder THEN stripped \o <<SEP>> ELSE stripped
        shown == IF entry.folder THEN entry.path_display \o <<SEP>> ELSE entry.path_display
        base == IF key \in DOMAIN state THEN state
                ELSE (key :> get_empty_state_entry(entry.name,
                                DropFirst(shown, Len(DROPBOX_SYNC_ROOT)))) @@ state
    IN [base EXCEPT ![key].dbx =
            [existent |-> TRUE,
             time |-> IF entry.folder THEN timeNow ELSE entry.client_modified]]

RECURSIVE FillPageDbx(_, _, _)
FillPageDbx(state, entries, timeNow) ==
    IF entries = {} THEN state
    ELSE LET e == CHOOSE x \in entries : TRUE
         IN FillPageDbx(FillEntryDbx(state, e, timeNow), entries \ {e}, timeNow)

\* fill_state_dbx: the while loop fetches the next page before it reads any
\* entry, so the entries of the first response are never read
RECURSIVE FillFromPage(_, _, _, _)
FillFromPage(state, pages, i, timeNow) ==
    IF i >= Len(pages) THEN state
    ELSE FillFromPage(FillPageDbx(state, pages[i + 1], timeNow), pages, i + 1, timeNow)

fill_state_dbx(pages, state, timeNow) == FillFromPage(state, pages, 1, timeNow)

\* list_folders(depth=128): the PROPFIND result, the root collection included
NxcListing(store, isOk) ==
    [is_ok |-> isOk,
     data |-> IF isOk
              THEN {[href |-> NEXTCLOUD_SYNC_ROOT_TEXT, last_modified |-> 0]} \cup
                   {[href |-> SubSeq(NEXTCLOUD_SYNC_ROOT_TEXT, 1,
                                     Len(NEXTCLOUD_SYNC_ROOT_TEXT) - Len(NEXTCLOUD_SYNC_ROOT))
                              \o p,
                     last_modified |-> store[p].time] : p \in DOMAIN store}
              ELSE {}]

\* the body of the for loop of fill_state_nxc, for one entry
FillEntryNxc(state, entry) ==
    LET path_display == DropFirst(entry.href, Len(NEXTCLOUD_SYNC_ROOT_TEXT))
        key == Lower(path_display)
        base == IF key \in DOMAIN state THEN state
                ELSE (key :> get_empty_state_entry(LastSegment(path_display),
                                                   path_display)) @@ state
    IN IF key = <<>> THEN state
       ELSE [base EXCEPT ![key].nxc =
                [existent |-> TRUE, time |-> entry.last_modified]]

RECURSIVE FillDataNxc(_, _)
FillDataNxc(state, entries) ==
    IF entries = {} THEN state
    ELSE LET e == CHOOSE x \in entries : TRUE
         IN FillDataNxc(FillEntryNxc(state, e), entries \ {e})

\* a listing that is not ok is skipped without a word
fill_state_nxc(result, state) ==
    IF result.is_ok THEN FillDataNxc(state, result.data) ELSE state

EmptyState == [k \in {} |-> 0]

get_state(pages, result, timeNow) ==
    fill_state_nxc(result, fill_state_dbx(pages, EmptyState, timeNow))

\* --------------------------------------------------- snapshot normalizer

\* normalize_states without its second loop
normalize_states_first_loop(state_a, state_b) ==
    [a |-> state_a,
     b |-> [k \in DOMAIN state_a \cup DOMAIN state_b |->
              IF k \in DOMAIN state_b THEN state_b[k]
              ELSE get_empty_state_entry(state_a[k].name, state_a[k].path)]]

\* normalize_states: the pair (_state_a, _state_b) after the two loops
normalize_states(state_a, state_b) ==
    LET b1 == [k \in DOMAIN state_a \cup DOMAIN state_b |->
                  IF k \in DOMAIN state_b THEN state_b[k]
                  ELSE get_empty_state_entry(state_a[k].name, state_a[k].path)]
        a1 == [k \in DOMAIN state_a \cup DOMAIN b1 |->
                  IF k \in DOMAIN state_a THEN state_a[k]
                  ELSE get_empty_state_entry(b1[k].name, b1[k].path)]
    IN [a |-> a1, b |-> b1]

\* ----------------------------------------------------- change classifier

\* has_changed that looks at existence only
has_changed_existence(key, prev, curr, cloud) ==
    prev[key][cloud].existent # curr[key][cloud].existent

has_changed(key, prev, curr, cloud) ==
    IF prev[key][cloud].existent # curr[key][cloud].existent THEN TRUE
    ELSE IF is_folder(key) THEN FALSE
    ELSE prev[key][cloud].time # curr[key][cloud].time

has_been_created(key, prev, curr, cloud) ==
    ~prev[key][cloud].existent /\ curr[key][cloud].existent

has_been_changed(key, prev, curr, cloud) ==
    IF is_folder(key) THEN FALSE
    ELSE prev[key][cloud].time # curr[key][cloud].time

\* has_been_deleted with the two snapshots taken for each other
has_been_deleted_flipped(key, prev, curr, cloud) ==
    curr[key][cloud].existent /\ ~prev[key][cloud].existent

has_been_deleted(key, prev, curr, cloud) ==
    prev[key][cloud].existent /\ ~curr[key][cloud].existent

\* ------------------------------------------------------------ reconciler

\* IsRoot without the test for '/'
IsRootEmptyOnly(key) == key = <<>>

IsRoot(key) == key = <<>> \/ key = <<SEP>>

\* for ignore_folder in _ignore_folders: if key.startswith(ignore_folder)
Ignored(key, ignore_folders) == \E ig \in ignore_folders : StartsWith(key, ig)

\* strftime("%Y%m%d%H%M%S") of a time, as a token of a path
TimeStr(t) == ToString(t)

ConflictPath(path, value) == path \o <<" (NextCloud - ", TimeStr(value.nxc.time), ")">>

\* lines 462-466 and 472-476
conflict_resolve(W, path, value) ==
    LET Wa == get_hash_dbx(W, path)
        Wb == get_hash_nxc(Wa, path)
        nxc_path == ConflictPath(path, value)
    IN IF Wb.raised THEN Wb
       ELSE IF Wa.hash # Wb.hash
       THEN copy_to_dbx(copy_to_nxc(move_nxc(Wb, path, nxc_path), path), nxc_path)
       ELSE Wb

\* one iteration of the for loop of sync_state
sync_key(W, key, prev, curr, ignore_folders) ==
    LET value == curr[key]
        path == value.path
        has_changed_dbx == has_changed(key, prev, curr, "dbx")
        has_changed_nxc == has_changed(key, prev, curr, "nxc")
        has_been_created_dbx == has_been_created(key, prev, curr, "dbx")
        has_been_created_nxc == has_been_created(key, prev, curr, "nxc")
        has_been_changed_dbx == has_been_changed(key, prev, curr, "dbx")
        has_been_changed_nxc == has_been_changed(key, prev, curr, "nxc")
        has_been_deleted_dbx == has_been_deleted(key, prev, curr, "dbx")
        has_been_deleted_nxc == has_been_deleted(key, prev, curr, "nxc")
    IN IF IsRoot(key) \/ Ignored(key, ignore_folders) THEN W
       ELSE IF has_changed_dbx /\ ~has_changed_nxc
       THEN IF has_been_created_dbx THEN copy_to_nxc(W, path)
            ELSE IF has_been_deleted_dbx THEN delete_on_nxc(W, path)
            ELSE IF has_been_changed_dbx THEN copy_to_nxc(W, path)
            ELSE W
       ELSE IF ~has_changed_dbx /\ has_changed_nxc
       THEN IF has_been_created_nxc THEN copy_to_dbx(W, path)
            ELSE IF has_been_deleted_nxc THEN delete_on_dbx(W, path)
            ELSE IF has_been_changed_nxc THEN copy_to_dbx(W, path)
            ELSE W
       ELSE IF has_changed_dbx /\ has_changed_nxc
       THEN IF has_been_created_dbx /\ has_been_created_nxc
            THEN conflict_resolve(W, path, value)
            ELSE IF has_been_changed_dbx /\ has_been_deleted_nxc THEN copy_to_nxc(W, path)
            ELSE IF has_been_deleted_dbx /\ has_been_changed_nxc THEN copy_to_dbx(W, path)
            ELSE IF has_been_changed_dbx /\ has_been_changed_nxc
            THEN conflict_resolve(W, path, value)
            ELSE W
       ELSE W

\* apply_key copying towards the backend that has the entry
apply_key_swapped(W, key, state, ignore_folders) ==
    LET value == state[key]
        existent_in_dbx == value.dbx.existent
        existent_in_nxc == value.nxc.existent
        ignore == \/ IsRoot(key)
                  \/ existent_in_dbx = existent_in_nxc
                  \/ Ignored(key, ignore_folders)
    IN IF ignore THEN W
       ELSE IF existent_in_dbx THEN copy_to_dbx(W, value.path)
       ELSE IF existent_in_nxc THEN copy_to_nxc(W, value.path)
       ELSE W

\* one iteration of the for loop of apply_state
apply_key(W, key, state, ignore_folders) ==
    LET value == state[key]
        existent_in_dbx == value.dbx.existent
        existent_in_nxc == value.nxc.existent
        ignore == \/ IsRoot(key)
                  \/ existent_in_dbx = existent_in_nxc
                  \/ Ignored(key, ignore_folders)
    IN IF ignore THEN W
       ELSE IF ~existent_in_dbx THEN copy_to_dbx(W, value.path)
       ELSE IF ~existent_in_nxc THEN copy_to_nxc(W, value.path)
       ELSE W

\* --------------------------------------------------------- state machine

VARIABLES
    dbx,            \* the Dropbox store
    nxc,            \* the NextCloud store
    saved,          \* state.json
    firstPage,      \* the Dropbox paths that come with the first listing response:
                    \* none of the two (they come with a continuation), or both
    ignore_folders, \* --ignore-folder
    args,           \* [create_state, apply_state, simulate] of the current run
    pc,             \* "idle", "sync", "apply", "done", "raised" (by an iteration),
                    \* "unlisted" (by a Dropbox listing), "killed"
    state_prev,     \* _state_prev of sync_state, normalized
    state_curr,     \* _state_curr of sync_state (normalized), _state of apply_state
    todo,           \* the keys the for loop has not reached yet
    calls,          \* key -> the calls issued while the loop was at that key
    lastKey,        \* the key the loop was at last
    listing,        \* how the listings of the run's first get_state answered
    runNo,          \* the number of runs started
    now,            \* the clock
    dbx0,           \* the Dropbox store when the run started
    nxc0,           \* the NextCloud store when the run started
    hist,           \* the previous run: how it ended, its arguments, what it applied
    changes,        \* the number of changes made by users
    extChanged,     \* a user changed a backend since the last run ended
    faults          \* the number of failed listings and ended processes

vars == <<dbx, nxc, saved, firstPage, ignore_folders, args, pc, state_prev, state_curr,
          todo, calls, lastKey, listing, runNo, now, dbx0, nxc0, hist, changes,
          extChanged, faults>>

DbxFolderPath == DROPBOX_SYNC_ROOT \o RStrip(FolderKey)
DbxFilePath == DROPBOX_SYNC_ROOT \o FileKey
NxcFolderPath == NEXTCLOUD_SYNC_ROOT \o FolderKey
NxcFilePath == NEXTCLOUD_SYNC_ROOT \o FileKey

\* the stores before the first change: both hold nothing, the folder, or the
\* folder with the file in it
DbxInit ==
    <<EmptyState,
      DbxFolderPath :> FolderObj(0),
      (DbxFolderPath :> FolderObj(0)) @@ (DbxFilePath :> FileObj(0, 1))>>

NxcInit ==
    <<EmptyState,
      NxcFolderPath :> FolderObj(0),
      (NxcFolderPath :> FolderObj(0)) @@ (NxcFilePath :> FileObj(0, 1))>>

NoArgs == [create_state |-> FALSE, apply_state |-> FALSE, simulate |-> FALSE]
NoHist == [outcome |-> "none", args |-> NoArgs, applied |-> {}, ext |-> FALSE]
Answers == {"ok", "dbx_fails", "nxc_fails"}

\* get_state against the given stores; a failed Dropbox listing raises before
\* this is reached, a failed NextCloud listing answers is_ok = False
Listed(d, n, pageOne, answer, timeNow) ==
    get_state(DbxPages(d, pageOne), NxcListing(n, answer # "nxc_fails"), timeNow)

\* state.json starts as an earlier run listed the stores
Init ==
    /\ \E w \in 1..3 : dbx = DbxInit[w] /\ nxc = NxcInit[w]
    /\ firstPage \in {{}, {DbxFolderPath, DbxFilePath}}
    /\ saved = Listed(dbx, nxc, firstPage, "ok", 0)
    /\ ignore_folders \in {{}, {FileKey}}
    /\ args = NoArgs
    /\ pc = "idle"
    /\ state_prev = EmptyState
    /\ state_curr = EmptyState
    /\ todo = {}
    /\ calls = EmptyState
    /\ lastKey = <<>>
    /\ listing = "ok"
    /\ runNo = 0
    /\ now = 0
    /\ dbx0 = dbx
    /\ nxc0 = nxc
    /\ hist = NoHist
    /\ changes = 0
    /\ extChanged = FALSE
    /\ faults = 0

Idle == pc \in {"idle", "done", "raised", "unlisted", "killed"}

Mutating == {"create_folder_dbx", "create_folder_nxc", "move_nxc", "upload_file_dbx",
             "upload_file_nxc", "delete_on_dbx", "delete_on_nxc"}

\* the calls of a log that changed a backend
Applied(log) == {i \in 1..Len(log) : log[i].op \in Mutating /\ log[i].exec /\ log[i].ok}

Fault(answer) ==
    /\ answer # "ok" => faults < MaxFaults
    /\ faults' = IF answer = "ok" THEN faults ELSE faults + 1

\* what every start of the script does to the bookkeeping; one behaviour
\* runs the script in one mode (sync, --create-state, --apply-state or both)
Begin(a, answer) ==
    /\ Idle
    /\ runNo < MaxRuns
    /\ runNo > 0 => /\ a.create_state = args.create_state
                    /\ a.apply_state = args.apply_state
    /\ Fault(answer)
    /\ runNo' = runNo + 1
    /\ now' = now + 2
    /\ args' = a
    /\ listing' = answer
    /\ calls' = EmptyState
    /\ lastKey' = <<>>
    /\ dbx0' = dbx
    /\ nxc0' = nxc
    /\ hist' = [outcome |-> pc, args |-> args,
                applied |-> {k \in DOMAIN calls : Applied(calls[k]) # {}},
                ext |-> extChanged]
    /\ extChanged' = FALSE
    /\ UNCHANGED <<dbx, nxc, firstPage, ignore_folders, changes>>

\* main, lines 124-127: --create-state alone
MainCreateState(simulate, answer) ==
    /\ Begin([create_state |-> TRUE, apply_state |-> FALSE, simulate |-> simulate], answer)
    /\ simulate => answer = "ok"
    /\ IF simulate
       THEN pc' = "done" /\ UNCHANGED saved
       ELSE IF answer # "dbx_fails"
       THEN pc' = "done" /\ saved' = Listed(dbx, nxc, firstPage, answer, now')
       ELSE pc' = "unlisted" /\ UNCHANGED saved
    /\ UNCHANGED <<state_prev, state_curr, todo>>

\* main, lines 124-130: --apply-state, after --create-state when both are given
MainApplyState(create, simulate, answer) ==
    /\ Begin([create_state |-> create, apply_state |-> TRUE, simulate |-> simulate], answer)
    /\ IF create /\ ~simulate
       THEN IF answer # "dbx_fails"
            THEN /\ saved' = Listed(dbx, nxc, firstPage, answer, now')
                 /\ state_curr' = saved'
                 /\ todo' = DOMAIN saved'
                 /\ pc' = "apply"
            ELSE /\ pc' = "unlisted"
                 /\ UNCHANGED <<saved, state_curr, todo>>
       ELSE /\ answer = "ok"
            /\ state_curr' = saved
            /\ todo' = DOMAIN saved
            /\ pc' = "apply"
            /\ UNCHANGED saved
    /\ UNCHANGED state_prev

\* main, lines 134-136 up to the for loop of sync_state
MainSync(simulate, answer) ==
    /\ Begin([create_state |-> FALSE, apply_state |-> FALSE, simulate |-> simulate], answer)
    /\ IF answer # "dbx_fails"
       THEN LET n == normalize_states(saved, Listed(dbx, nxc, firstPage, answer, now'))
            IN /\ state_prev' = n.a
               /\ state_curr' = n.b
               /\ todo' = DOMAIN n.b
               /\ pc' = "sync"
       ELSE /\ pc' = "unlisted"
            /\ UNCHANGED <<state_prev, state_curr, todo>>
    /\ UNCHANGED saved

\* what one iteration leaves behind
Iterated(key, W) ==
    /\ dbx' = W.dbx
    /\ nxc' = W.nxc
    /\ calls' = (key :> W.log) @@ calls
    /\ lastKey' = key
    /\ todo' = todo \ {key}
    /\ pc' = IF W.raised THEN "raised" ELSE pc
    /\ UNCHANGED <<saved, firstPage, ignore_folders, args, state_prev, state_curr,
                   listing, runNo, now, dbx0, nxc0, hist, changes, extChanged, faults>>

\* sync_state: the for loop takes the keys in the order of the dict, which is
\* the order the listings gave them in
SyncKey(key) ==
    /\ pc = "sync"
    /\ key \in todo
    /\ Iterated(key, sync_key(NewWorld(dbx, nxc, args.simulate, now), key,
                              state_prev, state_curr, ignore_folders))

ApplyKey(key) ==
    /\ pc = "apply"
    /\ key \in todo
    /\ Iterated(key, apply_key(NewWorld(dbx, nxc, args.simulate, now), key,
                               state_curr, ignore_folders))

\* Persist writing the snapshot the loop ran on, not a new listing
PersistStale(answer) ==
    /\ pc \in {"sync", "apply"}
    /\ todo = {}
    /\ Fault(answer)
    /\ IF answer # "dbx_fails"
       THEN pc' = "done" /\ saved' = state_curr
       ELSE pc' = "unlisted" /\ UNCHANGED saved
    /\ UNCHANGED <<dbx, nxc, firstPage, ignore_folders, args, state_prev, state_curr,
                   todo, calls, lastKey, listing, runNo, now, dbx0, nxc0, hist,
                   changes, extChanged>>

\* main, lines 131-132 and 137-138: the snapshot is listed again and written
Persist(answer) ==
    /\ pc \in {"sync", "apply"}
    /\ todo = {}
    /\ Fault(answer)
    /\ IF answer # "dbx_fails"
       THEN pc' = "done" /\ saved' = Listed(dbx, nxc, firstPage, answer, now)
       ELSE pc' = "unlisted" /\ UNCHANGED saved
    /\ UNCHANGED <<dbx, nxc, firstPage, ignore_folders, args, state_prev, state_curr,
                   todo, calls, lastKey, listing, runNo, now, dbx0, nxc0, hist,
                   changes, extChanged>>

\* the process is ended from outside between two iterations
Kill ==
    /\ pc \in {"sync", "apply"}
    /\ faults < MaxFaults
    /\ faults' = faults + 1
    /\ pc' = "killed"
    /\ UNCHANGED <<dbx, nxc, saved, firstPage, ignore_folders, args, state_prev,
                   state_curr, todo, calls, lastKey, listing, runNo, now, dbx0, nxc0,
                   hist, changes, extChanged>>

\* what a user can do to a store between two runs: write the file, make the
\* folder, remove the file or the folder
UserDbx(what, c) ==
    CASE what = "write" -> DbxUpload(dbx, DbxFilePath, c, now + 1)
      [] what = "mkdir" -> DbxCreateFolder(dbx, DbxFolderPath, now + 1)
      [] what = "rm" -> DbxDelete(dbx, DbxFilePath)
      [] what = "rmdir" -> DbxDelete(dbx, DbxFolderPath)

UserNxc(what, c) ==
    CASE what = "write" -> NxcUpload(nxc, NxcFilePath, c, now + 1)
      [] what = "mkdir" -> NxcCreateFolder(nxc, NxcFolderPath, now + 1)
      [] what = "rm" -> NxcDelete(nxc, NxcFilePath)
      [] what = "rmdir" -> NxcDelete(nxc, NxcFolderPath)

ExternalChange(onDbx, what, c) ==
    /\ Idle
    /\ runNo < MaxRuns
    /\ changes < MaxChanges
    /\ what # "write" => c = 1
    /\ LET r == IF onDbx THEN UserDbx(what, c) ELSE UserNxc(what, c)
       IN /\ r.ok
          /\ dbx' = IF onDbx THEN r.store ELSE dbx
          /\ nxc' = IF onDbx THEN nxc ELSE r.store
    /\ changes' = changes + 1
    /\ extChanged' = TRUE
    /\ UNCHANGED <<saved, firstPage, ignore_folders, args, pc, state_prev, state_curr,
                   todo, calls, lastKey, listing, runNo, now, dbx0, nxc0, hist, faults>>

Next ==
    \/ \E s \in BOOLEAN, a \in Answers : MainCreateState(s, a)
    \/ \E c, s \in BOOLEAN, a \in Answers : MainApplyState(c, s, a)
    \/ \E s \in BOOLEAN, a \in Answers : MainSync(s, a)
    \/ \E k \in Keys : SyncKey(k)
    \/ \E k \in Keys : ApplyKey(k)
    \/ \E a \in Answers : Persist(a)
    \/ Kill
    \/ \E b \in BOOLEAN, w \in {"write", "mkdir", "rm", "rmdir"}, c \in Contents :
          ExternalChange(b, w, c)

Spec == Init /\ [][Next]_vars

\* ------------------------------------- the loops on snapshots with a root
\* With a NextCloud root given without a trailing separator the listing has
\* the root collection under the key '/', and a state.json can hold the keys
\* '' and '/'.  RootSpec runs the two loops on snapshots that hold them.

RootKeys == {<<>>, <<SEP>>}

\* the existence of a root entry on (Dropbox, NextCloud)
RootShapes == {<<FALSE, TRUE>>, <<TRUE, FALSE>>, <<TRUE, TRUE>>}

RootEntry(k, shape, t) ==
    [dbx |-> [existent |-> shape[1], time |-> IF shape[1] THEN t ELSE None],
     nxc |-> [existent |-> shape[2], time |-> IF shape[2] THEN t ELSE None],
     name |-> <<>>,
     path |-> k]

WithRoots(state, R, shape, t) ==
    [k \in DOMAIN state \cup R |-> IF k \in R THEN RootEntry(k, shape, t) ELSE state[k]]

\* a run at the start of its loop: of sync_state on the normalized pair of a
\* state.json and a listed snapshot, or of apply_state on a state.json
RootInit ==
    /\ \E w \in 1..3 : dbx = DbxInit[w] /\ nxc = NxcInit[w]
    /\ firstPage = {}
    /\ ignore_folders \in {{}, {FileKey}}
    /\ args \in {a \in [create_state : {FALSE}, apply_state : BOOLEAN, simulate : BOOLEAN] : TRUE}
    /\ \E w0 \in 1..3, R0 \in SUBSET RootKeys, R1 \in SUBSET RootKeys,
          s0 \in RootShapes, s1 \in RootShapes :
          LET a == WithRoots(Listed(DbxInit[w0], NxcInit[w0], {}, "ok", 0), R0, s0, 0)
              b == WithRoots(Listed(dbx, nxc, {}, "ok", 2), R1, s1, 1)
              n == normalize_states(a, b)
          IN /\ saved = a
             /\ state_prev = IF args.apply_state THEN EmptyState ELSE n.a
             /\ state_curr = IF args.apply_state THEN a ELSE n.b
    /\ pc = IF args.apply_state THEN "apply" ELSE "sync"
    /\ todo = DOMAIN state_curr
    /\ calls = EmptyState
    /\ lastKey = <<>>
    /\ listing = "ok"
    /\ runNo = 1
    /\ now = 2
    /\ dbx0 = dbx
    /\ nxc0 = nxc
    /\ hist = NoHist
    /\ changes = 0
    /\ extChanged = FALSE
    /\ faults = 0

RootNext ==
    \/ \E k \in Keys \cup RootKeys : SyncKey(k)
    \/ \E k \in Keys \cup RootKeys : ApplyKey(k)

RootSpec == RootInit /\ [][RootNext]_vars

\* ---------------------------------------------------------------- claims

Ops(log) == [i \in 1..Len(log) |-> log[i].op]
Count(log, op) == Cardinality({i \in 1..Len(log) : log[i].op = op})

SyncArgs(a) == ~a.create_state /\ ~a.apply_state
InSyncRun == runNo > 0 /\ SyncArgs(args)
InApplyRun == runNo > 0 /\ args.apply_state

\* the loop of the current run has been at the key and nothing has touched
\* the stores since the run ended
At(key) == key \in DOMAIN calls /\ ~extChanged

\* the key is taken by the reconciler at all
Reconciled(key) == ~IsRoot(key) /\ ~Ignored(key, ignore_folders)

NoCalls == \A k \in DOMAIN calls : calls[k] = <<>>

ConflictCase ==
    /\ InSyncRun
    /\ ~args.simulate
    /\ Reconciled(FileKey)
    /\ At(FileKey)
    /\ listing = "ok"
    /\ state_prev[FileKey].dbx.existent /\ state_prev[FileKey].nxc.existent
    /\ state_curr[FileKey].dbx.existent /\ state_curr[FileKey].nxc.existent
    /\ state_prev[FileKey].dbx.time # state_curr[FileKey].dbx.time
    /\ state_prev[FileKey].nxc.time # state_curr[FileKey].nxc.time
    /\ DbxFilePath \in DOMAIN dbx0 /\ NxcFilePath \in DOMAIN nxc0
    /\ dbx0[DbxFilePath].content # nxc0[NxcFilePath].content

HoldsFile(store, p, c) == p \in DOMAIN store /\ ~store[p].folder /\ store[p].content = c

\* C2: once the loop has been at a file that both backends changed to
\* different contents, both backends hold Dropbox's content at the path and
\* NextCloud's earlier content at '<path> (NextCloud - <time>)'.
C2_ConflictCompleteness ==
    (ConflictCase /\ lastKey = FileKey) =>
        LET a == dbx0[DbxFilePath].content
            b == nxc0[NxcFilePath].content
            other == ConflictPath(FileKey, state_curr[FileKey])
        IN /\ HoldsFile(dbx, DbxFilePath, a)
           /\ HoldsFile(nxc, NxcFilePath, a)
           /\ HoldsFile(dbx, DROPBOX_SYNC_ROOT \o other, b)
           /\ HoldsFile(nxc, NEXTCLOUD_SYNC_ROOT \o other, b)

\* C3: for a key that was on both backends and is on neither now, the
\* loop issues no call, and the key is not in the snapshot written at the end.
C3_ConvergentDeletes ==
    \A k \in DOMAIN calls :
        (/\ InSyncRun
         /\ At(k)
         /\ listing = "ok"
         /\ state_prev[k].dbx.existent /\ state_prev[k].nxc.existent
         /\ ~state_curr[k].dbx.existent /\ ~state_curr[k].nxc.existent)
        => /\ calls[k] = <<>>
           /\ pc = "done" => k \notin DOMAIN saved

\* C4: when a listing of the snapshot a sync run decides on has failed, no
\* call of that run changes a backend.
C4_ListingFailureIsFatal ==
    (InSyncRun /\ listing # "ok") =>
        \A k \in DOMAIN calls : Applied(calls[k]) = {}

FileOps == {"copy_to_nxc", "copy_to_dbx", "create_folder_dbx", "create_folder_nxc",
            "move_nxc", "download_file_dbx", "download_file_nxc", "get_hash_dbx",
            "get_hash_nxc", "upload_file_dbx", "upload_file_nxc", "delete_on_dbx",
            "delete_on_nxc"}

\* the log of one copy of a file from Dropbox to NextCloud: the download, and
\* the upload unless the download raised
IsCopyToNxc(log, key) ==
    /\ Len(log) \in {2, 3}
    /\ log[1] = Call("copy_to_nxc", key, TRUE, TRUE)
    /\ log[2].op = "download_file_dbx" /\ log[2].path = DROPBOX_SYNC_ROOT \o key
    /\ Len(log) = 2 <=> ~log[2].ok
    /\ Len(log) = 3 => log[3].op = "upload_file_nxc" /\ log[3].path = NEXTCLOUD_SYNC_ROOT \o key

IsCopyToDbx(log, key) ==
    /\ Len(log) \in {2, 3}
    /\ log[1] = Call("copy_to_dbx", key, TRUE, TRUE)
    /\ log[2].op = "download_file_nxc" /\ log[2].path = NEXTCLOUD_SYNC_ROOT \o key
    /\ Len(log) = 2 <=> ~log[2].ok
    /\ Len(log) = 3 => log[3].op = "upload_file_dbx" /\ log[3].path = DROPBOX_SYNC_ROOT \o key

CreatedOnDbxOnly(k) ==
    /\ InSyncRun
    /\ k \in DOMAIN calls
    /\ ~is_folder(k)
    /\ Reconciled(k)
    /\ ~state_prev[k].dbx.existent /\ ~state_prev[k].nxc.existent
    /\ state_curr[k].dbx.existent /\ ~state_curr[k].nxc.existent

\* C5: for a file that was on neither backend and is on Dropbox only now, the
\* loop issues one copy to NextCloud (download from Dropbox, upload to
\* NextCloud) and nothing else: no delete, no move, no digest.
C5_SingleSideCreate ==
    \A k \in DOMAIN calls : CreatedOnDbxOnly(k) => IsCopyToNxc(calls[k], k)

C5_Witness ==
    /\ CreatedOnDbxOnly(FileKey)
    /\ ~args.simulate
    /\ Len(calls[FileKey]) = 3
    /\ calls[FileKey][3].ok

WasOnBoth(k) ==
    /\ InSyncRun
    /\ k \in DOMAIN calls
    /\ Reconciled(k)
    /\ state_prev[k].dbx.existent /\ state_prev[k].nxc.existent

DeletedOnDbxOnly(k) ==
    /\ WasOnBoth(k)
    /\ ~state_curr[k].dbx.existent
    /\ ~has_changed(k, state_prev, state_curr, "nxc")

DeletedOnNxcOnly(k) ==
    /\ WasOnBoth(k)
    /\ ~state_curr[k].nxc.existent
    /\ ~has_changed(k, state_prev, state_curr, "dbx")

\* C6: for a key that was on both backends, is unchanged on one and gone
\* from the other, the loop issues one delete of the path on the backend that
\* still has it, and nothing else.
C6_SingleSideDelete ==
    \A k \in DOMAIN calls :
        /\ DeletedOnDbxOnly(k) =>
              /\ Ops(calls[k]) = <<"delete_on_nxc">>
              /\ calls[k][1].path = NEXTCLOUD_SYNC_ROOT \o state_curr[k].path
        /\ DeletedOnNxcOnly(k) =>
              /\ Ops(calls[k]) = <<"delete_on_dbx">>
              /\ calls[k][1].path = DROPBOX_SYNC_ROOT \o RStrip(state_curr[k].path)

\* a folder gone from Dropbox has been removed from NextCloud
C6_Witness ==
    /\ DeletedOnDbxOnly(FolderKey)
    /\ calls[FolderKey][1].exec /\ calls[FolderKey][1].ok
    /\ NxcFolderPath \notin DOMAIN nxc

\* what apply_state is to issue for a key of its snapshot
SeedLog(log, k, e) ==
    IF ~Reconciled(k) \/ e.dbx.existent = e.nxc.existent THEN log = <<>>
    ELSE IF e.dbx.existent
    THEN IF is_folder(k)
         THEN Ops(log) = <<"copy_to_nxc", "create_folder_nxc">>
         ELSE IsCopyToNxc(log, k)
    ELSE IF is_folder(k)
         THEN Ops(log) = <<"copy_to_dbx", "create_folder_dbx">>
         ELSE IsCopyToDbx(log, k)

\* C7: apply_state issues, for a key that is on one backend only, one copy
\* to the other backend (create-folder for a folder, download and upload for
\* a file), and nothing for a key that is on both or on neither, or that is
\* the root or ignored; it never computes a digest.
C7_SeedReconciler ==
    InApplyRun => \A k \in DOMAIN calls : SeedLog(calls[k], k, state_curr[k])

\* the seed run has left alone the folder, which is on both backends, and
\* has copied the file, which is on NextCloud only, to Dropbox
C7_Witness ==
    /\ InApplyRun
    /\ ~args.simulate
    /\ DOMAIN calls = Keys
    /\ state_curr[FolderKey].dbx.existent /\ state_curr[FolderKey].nxc.existent
    /\ calls[FolderKey] = <<>>
    /\ Reconciled(FileKey)
    /\ ~state_curr[FileKey].dbx.existent /\ state_curr[FileKey].nxc.existent
    /\ Len(calls[FileKey]) = 3
    /\ calls[FileKey][3].exec /\ calls[FileKey][3].ok

\* C8: in a run with --simulate no mutating call reaches a backend, and the
\* stores stay as they were when the run started.
C8_DryRun ==
    (runNo > 0 /\ args.simulate /\ ~extChanged) =>
        /\ dbx = dbx0
        /\ nxc = nxc0
        /\ \A k \in DOMAIN calls : \A i \in 1..Len(calls[k]) :
              calls[k][i].op \in Mutating => ~calls[k][i].exec

\* a simulated run has downloaded a file and held back the upload, and has
\* held back a create-folder
C8_Witness ==
    /\ runNo > 0 /\ args.simulate /\ ~extChanged
    /\ \E k \in DOMAIN calls : \E i \in 1..Len(calls[k]) :
          calls[k][i].op = "upload_file_nxc" /\ ~calls[k][i].exec
    /\ \E k \in DOMAIN calls : \E i \in 1..Len(calls[k]) :
          calls[k][i].op = "create_folder_nxc" /\ ~calls[k][i].exec
    /\ \E k \in DOMAIN calls : \E i \in 1..Len(calls[k]) :
          calls[k][i].op = "download_file_dbx" /\ calls[k][i].exec

\* C9: a sync run that follows a sync run ended after it had changed a
\* backend, with the old state.json and no change made in between, does not
\* raise at a key whose action the ended run had already applied.
C9_RerunAfterAbort ==
    (/\ InSyncRun
     /\ ~args.simulate
     /\ listing = "ok"
     /\ SyncArgs(hist.args)
     /\ ~hist.args.simulate
     /\ hist.outcome = "killed"
     /\ hist.applied # {}
     /\ ~hist.ext) => ~(pc = "raised" /\ lastKey \in hist.applied)

\* the for loop of sync_state over the keys in a given order, from given
\* stores: the stores it leaves, whether it raised, whether a backend
\* refused a call
RECURSIVE RunInOrder(_, _, _)
RunInOrder(order, i, R) ==
    IF i > Len(order) \/ R.raised THEN R
    ELSE LET W == sync_key(NewWorld(R.dbx, R.nxc, args.simulate, now), order[i],
                           state_prev, state_curr, ignore_folders)
         IN RunInOrder(order, i + 1,
                [dbx |-> W.dbx, nxc |-> W.nxc, raised |-> W.raised,
                 refused |-> R.refused \/ \E j \in 1..Len(W.log) : ~W.log[j].ok])

Orders(S) == {o \in [1..Cardinality(S) -> S] : \A i, j \in DOMAIN o : o[i] = o[j] => i = j}

\* C10: when the loop of sync_state starts, every order of the keys leaves
\* the same stores, with the same calls carried out.
C10_PathIndependence ==
    (InSyncRun /\ pc = "sync" /\ todo = DOMAIN state_curr /\ ~args.simulate /\ listing = "ok") =>
        LET start == [dbx |-> dbx, nxc |-> nxc, raised |-> FALSE, refused |-> FALSE]
        IN \A o1, o2 \in Orders(todo) :
              RunInOrder(o1, 1, start) = RunInOrder(o2, 1, start)

\* the paths of a key on the two backends
DbxPathOf(k) == DROPBOX_SYNC_ROOT \o RStrip(k)
NxcPathOf(k) == NEXTCLOUD_SYNC_ROOT \o k

SameAt(a, b, p) ==
    /\ p \in DOMAIN a <=> p \in DOMAIN b
    /\ p \in DOMAIN a => a[p] = b[p]

\* every listing of the behaviour so far answered, and answered in full
ListedInFull == listing = "ok" /\ faults = 0 /\ firstPage = {}

\* C11: during a run (sync_state or apply_state), the object at the path of
\* a key that starts with an ignore prefix stays on both backends as it was
\* when the run started.
C11_IgnoreSkip ==
    (runNo > 0 /\ ~extChanged /\ ListedInFull) =>
        \A k \in Keys :
            Ignored(k, ignore_folders) =>
                /\ SameAt(dbx, dbx0, DbxPathOf(k))
                /\ SameAt(nxc, nxc0, NxcPathOf(k))

FolderCreatedOnNxcOnly(k) ==
    /\ InSyncRun
    /\ k \in DOMAIN calls
    /\ is_folder(k)
    /\ Reconciled(k)
    /\ ~state_prev[k].dbx.existent /\ ~state_prev[k].nxc.existent
    /\ ~state_curr[k].dbx.existent /\ state_curr[k].nxc.existent

\* C12: for a folder that was on neither backend and is on NextCloud only
\* now, the loop issues one create-folder on Dropbox for the path, and no
\* download, upload or digest.
C12_FolderPropagation ==
    \A k \in DOMAIN calls :
        FolderCreatedOnNxcOnly(k) =>
            /\ Ops(calls[k]) = <<"copy_to_dbx", "create_folder_dbx">>
            /\ calls[k][2].path = DbxPathOf(state_curr[k].path)

\* the folder a user made on NextCloud has been made on Dropbox
C12_Witness ==
    /\ FolderCreatedOnNxcOnly(FolderKey)
    /\ ListedInFull
    /\ ~args.simulate
    /\ calls[FolderKey][2].exec /\ calls[FolderKey][2].ok
    /\ DbxFolderPath \in DOMAIN dbx /\ dbx[DbxFolderPath].folder

\* C13: at a folder key the loop computes no digest and issues no rename,
\* whatever the previous and the current snapshot say about the folder.
C13_FoldersNeverConflict ==
    \A k \in DOMAIN calls :
        (InSyncRun /\ is_folder(k) /\ ListedInFull) =>
            \A i \in 1..Len(calls[k]) :
                calls[k][i].op \notin {"get_hash_dbx", "get_hash_nxc", "move_nxc"}

Clouds == {"dbx", "nxc"}

\* the number of the three classifiers that answer True
Verdicts(k, prev, curr, cloud) ==
    Cardinality({v \in {"created", "changed", "deleted"} :
        \/ v = "created" /\ has_been_created(k, prev, curr, cloud)
        \/ v = "changed" /\ has_been_changed(k, prev, curr, cloud)
        \/ v = "deleted" /\ has_been_deleted(k, prev, curr, cloud)})

\* C14: on the normalized snapshots of a sync run, for every key and
\* backend for which has_changed is True, exactly one of has_been_created,
\* has_been_changed and has_been_deleted is True.
C14_ClassifierExclusive ==
    (InSyncRun /\ pc = "sync" /\ ListedInFull) =>
        \A k \in DOMAIN state_curr : \A cloud \in Clouds :
            has_changed(k, state_prev, state_curr, cloud) =>
                Verdicts(k, state_prev, state_curr, cloud) = 1

FileWasOnBoth(k) ==
    /\ InSyncRun
    /\ k \in DOMAIN calls
    /\ ~is_folder(k)
    /\ Reconciled(k)
    /\ state_prev[k].dbx.existent /\ state_prev[k].nxc.existent

ModifiedOn(k, cloud) ==
    /\ state_curr[k][cloud].existent
    /\ state_curr[k][cloud].time # state_prev[k][cloud].time

\* C15: for a file that was on both backends, modified on one and deleted
\* on the other since, the loop issues one copy from the backend that has
\* it to the other (download, upload) and nothing else: no delete, no digest.
C15_Resurrect ==
    \A k \in DOMAIN calls :
        /\ (FileWasOnBoth(k) /\ ModifiedOn(k, "dbx") /\ ~state_curr[k].nxc.existent)
              => IsCopyToNxc(calls[k], k)
        /\ (FileWasOnBoth(k) /\ ModifiedOn(k, "nxc") /\ ~state_curr[k].dbx.existent)
              => IsCopyToDbx(calls[k], k)

\* the file a user rewrote on Dropbox and another removed from NextCloud is
\* on NextCloud again, with the content written on Dropbox
C15_Witness ==
    /\ FileWasOnBoth(FileKey)
    /\ ModifiedOn(FileKey, "dbx") /\ ~state_curr[FileKey].nxc.existent
    /\ ListedInFull
    /\ ~args.simulate
    /\ At(FileKey)
    /\ Len(calls[FileKey]) = 3
    /\ calls[FileKey][3].exec /\ calls[FileKey][3].ok
    /\ HoldsFile(dbx, DbxFilePath, 2)
    /\ HoldsFile(nxc, NxcFilePath, 2)

\* C16: the snapshot a sync run builds from listings that answered has, for
\* every object that was on a backend when the run started, an entry that
\* says it exists there, whichever page of the listing the object came with.
C16_SnapshotComplete ==
    (InSyncRun /\ pc = "sync" /\ listing = "ok" /\ faults = 0) =>
        \A k \in Keys :
            /\ DbxPathOf(k) \in DOMAIN dbx0 =>
                  k \in DOMAIN state_curr /\ state_curr[k].dbx.existent
            /\ NxcPathOf(k) \in DOMAIN nxc0 =>
                  k \in DOMAIN state_curr /\ state_curr[k].nxc.existent

\* the snapshot get_state returned to the current sync run, before
\* normalize_states
ListedCurr == Listed(dbx0, nxc0, firstPage, listing, now)

\* what normalize_states is to make of snapshot a, given the other one
NormalizedFrom(out, a, other) ==
    /\ DOMAIN out = DOMAIN a \cup DOMAIN other
    /\ \A k \in DOMAIN a : out[k] = a[k]
    /\ \A k \in DOMAIN out \ DOMAIN a :
          /\ out[k].dbx = [existent |-> FALSE, time |-> None]
          /\ out[k].nxc = [existent |-> FALSE, time |-> None]
          /\ out[k].name = other[k].name
          /\ out[k].path = other[k].path

\* C17: after normalize_states the previous and the current snapshot have
\* the same keys, the entries they had are as they were, and every entry put
\* in says the key exists on neither backend, with time None, and has the
\* name and path of the other snapshot's entry.
C17_NormalizerPostcondition ==
    (InSyncRun /\ pc = "sync") =>
        /\ DOMAIN state_prev = DOMAIN state_curr
        /\ NormalizedFrom(state_prev, saved, ListedCurr)
        /\ NormalizedFrom(state_curr, ListedCurr, saved)

\* the file is in the listed snapshot only and the previous snapshot has
\* got an entry for it
C17_Witness ==
    /\ InSyncRun /\ pc = "sync"
    /\ FolderKey \in DOMAIN saved
    /\ FileKey \notin DOMAIN saved
    /\ FileKey \in DOMAIN ListedCurr
    /\ FileKey \in DOMAIN state_prev
    /\ ~state_prev[FileKey].dbx.existent /\ ~state_prev[FileKey].nxc.existent

\* C18: at the key '' and at the key '/' the loops of sync_state and
\* apply_state issue no call, whatever the snapshots say about the key.
C18_RootExclusion ==
    \A k \in RootKeys \cap DOMAIN calls : calls[k] = <<>>

\* the loop of sync_state has been at both root keys, which the listed
\* snapshot has on NextCloud and the previous one does not have, and has
\* issued calls at the folder key only
C18_Witness ==
    /\ InSyncRun
    /\ RootKeys \subseteq DOMAIN calls
    /\ \A k \in RootKeys :
          /\ ~state_prev[k].nxc.existent /\ ~state_prev[k].dbx.existent
          /\ state_curr[k].nxc.existent /\ ~state_curr[k].dbx.existent
          /\ calls[k] = <<>>
    /\ FolderKey \in DOMAIN calls
    /\ calls[FolderKey] # <<>>

\* no call of the current run was refused or raised
NoFailedCall ==
    \A k \in DOMAIN calls : \A i \in 1..Len(calls[k]) : calls[k][i].ok

\* C19: when a sync run without --simulate has ended with no call refused,
\* every non-ignored key of the snapshot it wrote is on both backends or on
\* neither.
C19_Convergence ==
    (/\ InSyncRun
     /\ ~args.simulate
     /\ pc = "done"
     /\ ListedInFull
     /\ runNo = 1
     /\ NoFailedCall) =>
        \A k \in DOMAIN saved :
            Reconciled(k) => saved[k].dbx.existent = saved[k].nxc.existent

\* state.json says about the key what the snapshot read at the start of the
\* run said (the time of a folder aside, which is the time of the listing)
BaselineKept(k) ==
    LET old == state_prev[k]
    IN IF old.dbx.existent \/ old.nxc.existent
       THEN /\ k \in DOMAIN saved
            /\ saved[k].dbx.existent = old.dbx.existent
            /\ saved[k].nxc.existent = old.nxc.existent
            /\ ~is_folder(k) => /\ saved[k].dbx.time = old.dbx.time
                                /\ saved[k].nxc.time = old.nxc.time
       ELSE k \notin DOMAIN saved

\* C20: when a sync run with --simulate has ended, state.json still says
\* about every key at which the run announced a call what it said before the
\* run, so that the next run finds the same change.
C20_DryRunKeepsBaseline ==
    (InSyncRun /\ args.simulate /\ pc = "done" /\ ListedInFull) =>
        \A k \in DOMAIN calls : calls[k] # <<>> => BaselineKept(k)

\* some object of the store is a file with the content
HoldsContent(store, c) ==
    \E p \in DOMAIN store : ~store[p].folder /\ store[p].content = c

\* the file was created or modified on the backend since the previous
\* snapshot, and the run has removed it from that backend
LostFrom(cloud, store0, store, p) ==
    /\ FileKey \in DOMAIN state_curr
    /\ ModifiedOn(FileKey, cloud)
    /\ p \in DOMAIN store0 /\ ~store0[p].folder
    /\ p \notin DOMAIN store

\* C21: when a sync run has ended (completed or raised), a file that was
\* created or modified on a backend since the previous snapshot and that the
\* run has removed from that backend has its content on some backend.
C21_NoModifiedVersionDestroyed ==
    (/\ InSyncRun
     /\ ~args.simulate
     /\ ListedInFull
     /\ ~extChanged
     /\ pc \in {"done", "raised"}) =>
        /\ LostFrom("dbx", dbx0, dbx, DbxFilePath) =>
              \/ HoldsContent(dbx, dbx0[DbxFilePath].content)
              \/ HoldsContent(nxc, dbx0[DbxFilePath].content)
        /\ LostFrom("nxc", nxc0, nxc, NxcFilePath) =>
              \/ HoldsContent(dbx, nxc0[NxcFilePath].content)
              \/ HoldsContent(nxc, nxc0[NxcFilePath].content)

====
